---- MODULE Spec2Model ----
(***************************************************************************)
(* Model of trimLines (src/src/functions/trimLines.ts).                    *)
(*                                                                         *)
(* A string is a sequence of one-character strings.  Array indices kept in *)
(* the state (firstOccupiedLineIdx, lastOccupiedLineIdx) are 0-based as in *)
(* the source; sequences are 1-based, so element idx is arr[idx + 1].      *)
(* An optional value (null / undefined) is the empty sequence, a present   *)
(* value n is <<n>>.                                                       *)
(***************************************************************************)
EXTENDS Integers, Sequences, FiniteSets

\* Longest input string explored.
MaxLen == 6

SP  == " "
TAB == "\t"
NL  == "\n"
CR  == "\r"

\* Characters removed by String.prototype.trim / trimLeft (those that occur
\* in the explored alphabet, plus carriage return).
WhiteSpace == {SP, TAB, NL, CR}

\* Characters the explored inputs are made of.
Alphabet == {SP, TAB, NL, "a"}

NULL == <<>>

Strings == UNION {[1..n -> Alphabet] : n \in 0..MaxLen}

Configs == [trimLeftToLeastIndent : BOOLEAN,
            trimVerticalStart : BOOLEAN,
            trimVerticalEnd : BOOLEAN]

VARIABLES
    pc,                     \* "input" | "done" | "reapplied"
    str,                    \* the argument str
    config,                 \* the resolved configuration
    splitLines,             \* str.split('\n')
    leastIndent,            \* null or the least indent
    totalIndents,           \* per line: null, or the totalIndent it was re-indented by
    resultArrPreLeadTrail,  \* the lines after per-line trimming
    firstOccupiedLineIdx,   \* undefined or 0-based index
    lastOccupiedLineIdx,    \* undefined or 0-based index
    threw,                  \* TRUE iff the call raised (RangeError from repeat)
    ret,                    \* the returned string
    threw2,                 \* TRUE iff the second application raised
    ret2                    \* trimLines(ret, config)

vars == <<pc, str, config, splitLines, leastIndent, totalIndents,
          resultArrPreLeadTrail, firstOccupiedLineIdx, lastOccupiedLineIdx,
          threw, ret, threw2, ret2>>

----------------------------------------------------------------------------
(* String and array primitives used by the function.                       *)

IsWhiteSpace(c) == c \in WhiteSpace

RECURSIVE trimLeft(_)
trimLeft(s) ==
    IF s = <<>> THEN <<>>
    ELSE IF IsWhiteSpace(Head(s)) THEN trimLeft(Tail(s))
    ELSE s

RECURSIVE trimRight(_)
trimRight(s) ==
    IF s = <<>> THEN <<>>
    ELSE IF IsWhiteSpace(s[Len(s)]) THEN trimRight(SubSeq(s, 1, Len(s) - 1))
    ELSE s

trim(s) == trimRight(trimLeft(s))

RECURSIVE split(_)
split(s) ==
    IF \E i \in 1..Len(s) : s[i] = NL
    THEN LET i == CHOOSE k \in 1..Len(s) :
                      s[k] = NL /\ \A j \in 1..(k - 1) : s[j] # NL
         IN  <<SubSeq(s, 1, i - 1)>> \o split(SubSeq(s, i + 1, Len(s)))
    ELSE <<s>>

RECURSIVE join(_)
join(arr) ==
    IF arr = <<>> THEN <<>>
    ELSE IF Len(arr) = 1 THEN arr[1]
    ELSE arr[1] \o <<NL>> \o join(Tail(arr))

\* ' '.repeat(n) for n >= 0 (a negative n raises, see mapLine).
repeat(n) == [i \in 1..n |-> SP]

\* arr.slice(start, end) for 0 <= start; end is clamped to the length.
slice(arr, start, end) ==
    SubSeq(arr, start + 1, IF end > Len(arr) THEN Len(arr) ELSE end)

----------------------------------------------------------------------------
(* The stages of trimLines.                                                *)

getStringLeftIndentLength(s) == Len(s) - Len(trimLeft(s))

\* The for loop over splitLines, started with leastIndent = least.
leastIndentLoop_max(lines, least) ==
    LET occupied == {i \in 1..Len(lines) : Len(trim(lines[i])) # 0}
        indents == {getStringLeftIndentLength(lines[i]) : i \in occupied}
    IN  IF occupied = {} THEN least
        ELSE <<CHOOSE m \in indents : \A n \in indents : n <= m>>

RECURSIVE leastIndentLoop(_, _)
leastIndentLoop(lines, least) ==
    IF lines = <<>> THEN least
    ELSE LET l == Head(lines)
             indent == getStringLeftIndentLength(l)
         IN  IF Len(trim(l)) = 0 THEN leastIndentLoop(Tail(lines), least)
             ELSE IF least = NULL \/ indent < least[1]
                  THEN leastIndentLoop(Tail(lines), <<indent>>)
                  ELSE leastIndentLoop(Tail(lines), least)

computeLeastIndent(lines, trimLeftToLeastIndent) ==
    IF trimLeftToLeastIndent THEN leastIndentLoop(lines, NULL) ELSE NULL

\* The map callback without its bookkeeping: the line's new value, the
\* totalIndent it was re-indented by (null when it was not), and whether
\* ' '.repeat(totalIndent) raised.
mapLine_noSubtract(l, trimLeftToLeastIndent, least) ==
    LET newVal == trim(l)
    IN  IF Len(newVal) > 1 /\ trimLeftToLeastIndent /\ least # NULL
        THEN LET indentOfThisItem == getStringLeftIndentLength(l)
             IN  [newVal |-> repeat(indentOfThisItem) \o newVal,
                  totalIndent |-> <<indentOfThisItem>>, threw |-> FALSE]
        ELSE [newVal |-> newVal, totalIndent |-> NULL, threw |-> FALSE]

mapLine_trimLeftOnly(l, trimLeftToLeastIndent, least) ==
    LET newVal == trimLeft(l)
    IN  IF Len(newVal) > 1 /\ trimLeftToLeastIndent /\ least # NULL
        THEN LET indentOfThisItem == getStringLeftIndentLength(l)
                 totalIndent == indentOfThisItem - least[1]
             IN  [newVal |-> repeat(totalIndent) \o newVal,
                  totalIndent |-> <<totalIndent>>, threw |-> FALSE]
        ELSE [newVal |-> newVal, totalIndent |-> NULL, threw |-> FALSE]

mapLine_keepOriginalIndent(l, trimLeftToLeastIndent, least) ==
    LET newVal == trim(l)
    IN  IF Len(newVal) > 1 /\ trimLeftToLeastIndent /\ least # NULL
        THEN LET indentOfThisItem == getStringLeftIndentLength(l)
                 totalIndent == indentOfThisItem - least[1]
             IN  [newVal |-> SubSeq(l, least[1] + 1, indentOfThisItem) \o newVal,
                  totalIndent |-> <<totalIndent>>, threw |-> FALSE]
        ELSE [newVal |-> newVal, totalIndent |-> NULL, threw |-> FALSE]

mapLine_noExemption(l, trimLeftToLeastIndent, least) ==
    LET newVal == trim(l)
    IN  IF Len(newVal) > 0 /\ trimLeftToLeastIndent /\ least # NULL
        THEN LET indentOfThisItem == getStringLeftIndentLength(l)
                 totalIndent == indentOfThisItem - least[1]
             IN  [newVal |-> repeat(totalIndent) \o newVal,
                  totalIndent |-> <<totalIndent>>, threw |-> FALSE]
        ELSE [newVal |-> newVal, totalIndent |-> NULL, threw |-> FALSE]

mapLine(l, trimLeftToLeastIndent, least) ==
    LET newVal == trim(l)
    IN  IF Len(newVal) > 1 /\ trimLeftToLeastIndent /\ least # NULL
        THEN LET indentOfThisItem == getStringLeftIndentLength(l)
                 totalIndent == indentOfThisItem - least[1]
             IN  IF totalIndent < 0
                 THEN [newVal |-> newVal, totalIndent |-> <<totalIndent>>,
                       threw |-> TRUE]
                 ELSE [newVal |-> repeat(totalIndent) \o newVal,
                       totalIndent |-> <<totalIndent>>, threw |-> FALSE]
        ELSE [newVal |-> newVal, totalIndent |-> NULL, threw |-> FALSE]

\* Bookkeeping of the map callback: the first index whose new value is
\* non-empty, assigned once.
firstOccupied(arr) ==
    LET occ == {i \in 1..Len(arr) : Len(arr[i]) > 0}
    IN  IF occ = {} THEN NULL
        ELSE <<(CHOOSE i \in occ : \A j \in occ : i <= j) - 1>>

\* Bookkeeping of the map callback: the last index whose new value is
\* non-empty, reassigned on every occupied line.
lastOccupied_setOnce(arr) == firstOccupied(arr)

lastOccupied(arr) ==
    LET occ == {i \in 1..Len(arr) : Len(arr[i]) > 0}
    IN  IF occ = {} THEN NULL
        ELSE <<(CHOOSE i \in occ : \A j \in occ : j <= i) - 1>>

\* Removal of the leading and trailing line blocks (first and last defined).
verticalTrim_exclusiveEnd(arr, first, last, trimVerticalStart, trimVerticalEnd) ==
    IF trimVerticalStart /\ trimVerticalEnd THEN slice(arr, first, last)
    ELSE IF trimVerticalStart THEN slice(arr, first, Len(arr))
    ELSE IF trimVerticalEnd THEN slice(arr, 0, last)
    ELSE arr

verticalTrim_bothWhenStart(arr, first, last, trimVerticalStart, trimVerticalEnd) ==
    IF trimVerticalStart THEN slice(arr, first, last + 1)
    ELSE IF trimVerticalEnd THEN slice(arr, 0, last + 1)
    ELSE arr

verticalTrim_always(arr, first, last, trimVerticalStart, trimVerticalEnd) ==
    slice(arr, first, last + 1)

verticalTrim(arr, first, last, trimVerticalStart, trimVerticalEnd) ==
    IF trimVerticalStart /\ trimVerticalEnd THEN slice(arr, first, last + 1)
    ELSE IF trimVerticalStart THEN slice(arr, first, Len(arr))
    ELSE IF trimVerticalEnd THEN slice(arr, 0, last + 1)
    ELSE arr

\* The part after the map: the all-whitespace return, the vertical trim and
\* the join.
finish_noShortCircuit(arr, first, last, trimVerticalStart, trimVerticalEnd) ==
    IF first = NULL \/ last = NULL
    THEN join(arr)
    ELSE join(verticalTrim(arr, first[1], last[1],
                           trimVerticalStart, trimVerticalEnd))

finish(arr, first, last, trimVerticalStart, trimVerticalEnd) ==
    IF first = NULL \/ last = NULL
    THEN <<>>
    ELSE join(verticalTrim(arr, first[1], last[1],
                           trimVerticalStart, trimVerticalEnd))

\* The whole function; the record holds the locals and the returned value.
trimLines(s, cfg) ==
    LET lines  == split(s)
        least  == computeLeastIndent(lines, cfg.trimLeftToLeastIndent)
        mapped == [i \in 1..Len(lines) |->
                      mapLine(lines[i], cfg.trimLeftToLeastIndent, least)]
        raised == \E i \in 1..Len(lines) : mapped[i].threw
        arr    == [i \in 1..Len(lines) |-> mapped[i].newVal]
        first  == firstOccupied(arr)
        last   == lastOccupied(arr)
    IN  [splitLines            |-> lines,
         leastIndent           |-> least,
         totalIndents          |-> [i \in 1..Len(lines) |-> mapped[i].totalIndent],
         resultArrPreLeadTrail |-> arr,
         firstOccupiedLineIdx  |-> first,
         lastOccupiedLineIdx   |-> last,
         threw                 |-> raised,
         ret                   |-> IF raised THEN <<>>
                                   ELSE finish(arr, first, last,
                                               cfg.trimVerticalStart,
                                               cfg.trimVerticalEnd)]

----------------------------------------------------------------------------
(* The state machine: an input and a configuration are chosen, the         *)
(* function is applied, and it is applied again to its own result.         *)

Init ==
    /\ pc = "input"
    /\ str \in Strings
    /\ config \in Configs
    /\ splitLines = <<>>
    /\ leastIndent = NULL
    /\ totalIndents = <<>>
    /\ resultArrPreLeadTrail = <<>>
    /\ firstOccupiedLineIdx = NULL
    /\ lastOccupiedLineIdx = NULL
    /\ threw = FALSE
    /\ ret = <<>>
    /\ threw2 = FALSE
    /\ ret2 = <<>>

Call ==
    /\ pc = "input"
    /\ \E r \in {trimLines(str, config)} :
           /\ splitLines' = r.splitLines
           /\ leastIndent' = r.leastIndent
           /\ totalIndents' = r.totalIndents
           /\ resultArrPreLeadTrail' = r.resultArrPreLeadTrail
           /\ firstOccupiedLineIdx' = r.firstOccupiedLineIdx
           /\ lastOccupiedLineIdx' = r.lastOccupiedLineIdx
           /\ threw' = r.threw
           /\ ret' = r.ret
    /\ pc' = "done"
    /\ UNCHANGED <<str, config, threw2, ret2>>

Reapply ==
    /\ pc = "done"
    /\ ~threw
    /\ \E r \in {trimLines(ret, config)} :
           /\ threw2' = r.threw
           /\ ret2' = r.ret
    /\ pc' = "reapplied"
    /\ UNCHANGED <<str, config, splitLines, leastIndent, totalIndents,
                   resultArrPreLeadTrail, firstOccupiedLineIdx,
                   lastOccupiedLineIdx, threw, ret>>

Next == Call \/ Reapply

Spec == Init /\ [][Next]_vars

----------------------------------------------------------------------------
(* Vocabulary of the properties, defined on the strings themselves and     *)
(* not through the operators above.                                        *)

NewlinesOf(s) == {i \in 1..Len(s) : s[i] = NL}

\* Number of lines of a string: its newline characters plus one.
NumLines(s) == Cardinality(NewlinesOf(s)) + 1

\* Position of the k-th newline of s; 0 for k = 0, Len(s) + 1 past the last.
NthNewline(s, k) ==
    IF k = 0 THEN 0
    ELSE IF k > Cardinality(NewlinesOf(s)) THEN Len(s) + 1
    ELSE CHOOSE p \in NewlinesOf(s) :
             Cardinality({j \in NewlinesOf(s) : j <= p}) = k

LinesOf(s) ==
    [k \in 1..NumLines(s) |->
        SubSeq(s, NthNewline(s, k - 1) + 1, NthNewline(s, k) - 1)]

IsBlank(l) == \A i \in 1..Len(l) : l[i] \in WhiteSpace

\* Count of leading whitespace characters of a line.
LeadingWs(l) ==
    Cardinality({i \in 1..Len(l) : \A j \in 1..i : l[j] \in WhiteSpace})

MinOf(S) == CHOOSE m \in S : \A n \in S : m <= n
MaxOf(S) == CHOOSE m \in S : \A n \in S : n <= m

\* A line with its leading and trailing whitespace removed.
Stripped(l) ==
    LET ink == {i \in 1..Len(l) : l[i] \notin WhiteSpace}
    IN  IF ink = {} THEN <<>> ELSE SubSeq(l, MinOf(ink), MaxOf(ink))

Spaces(n) == [i \in 1..n |-> " "]

\* 1-based indices of the non-blank lines of a line sequence.
Occupied(lines) == {i \in 1..Len(lines) : ~IsBlank(lines[i])}
FirstOcc(lines) == MinOf(Occupied(lines))
LastOcc(lines) == MaxOf(Occupied(lines))

\* Minimum leading-whitespace count over the non-blank lines.
LeastOf(lines) == MinOf({LeadingWs(lines[i]) : i \in Occupied(lines)})

\* Number of input lines dropped in front of the output.
Dropped(lines) == IF config.trimVerticalStart THEN FirstOcc(lines) - 1 ELSE 0

\* The lines of the input and of the returned string.
InLines == {LinesOf(str)}
OutLines == {LinesOf(ret)}

----------------------------------------------------------------------------
\* C1: for an input all of whose lines are blank (the empty string
\* included), under each of the 8 configurations, trimLines returns the
\* empty string.
C1_AllBlankGivesEmpty ==
    (pc = "done" /\ IsBlank(str)) => (~threw /\ ret = <<>>)

C1_Witness ==
    /\ pc = "done"
    /\ IsBlank(str)
    /\ NumLines(str) >= 3
    /\ \E i \in 1..Len(str) : str[i] = TAB
    /\ \E i \in 1..Len(str) : str[i] = SP
    /\ ~config.trimVerticalStart /\ ~config.trimVerticalEnd
    /\ ret = <<>>

\* C2 as stated: with both vertical-trim options disabled the output has as
\* many lines as the input, for every input.
C2_LineCountKept_Original ==
    (pc = "done" /\ ~config.trimVerticalStart /\ ~config.trimVerticalEnd)
        => (~threw /\ NumLines(ret) = NumLines(str))

\* C2 amended: with both vertical-trim options disabled and an input that has
\* at least one non-blank line, the output has as many lines as the input;
\* an input with only blank lines gives the one-line empty string.
C2_LineCountKept ==
    (pc = "done" /\ ~config.trimVerticalStart /\ ~config.trimVerticalEnd)
        => /\ ~threw
           /\ ~IsBlank(str) => NumLines(ret) = NumLines(str)
           /\ IsBlank(str) => NumLines(ret) = 1

C2_Witness ==
    /\ pc = "done"
    /\ ~config.trimVerticalStart /\ ~config.trimVerticalEnd
    /\ ~IsBlank(str)
    /\ NumLines(str) >= 3
    /\ \E inl \in InLines : IsBlank(inl[1]) /\ IsBlank(inl[Len(inl)])
    /\ NumLines(ret) = NumLines(str)

\* C3: idempotence.  With trimVerticalStart and trimVerticalEnd both enabled
\* and either value of trimLeftToLeastIndent, applying trimLines to its own
\* result gives that result again.
C3_Idempotent ==
    (pc = "reapplied" /\ config.trimVerticalStart /\ config.trimVerticalEnd)
        => (~threw2 /\ ret2 = ret)

\* A single-character line and a longer line at different indentations, with
\* the first application changing the input.
C3_Witness ==
    /\ pc = "reapplied"
    /\ config.trimVerticalStart /\ config.trimVerticalEnd
    /\ config.trimLeftToLeastIndent
    /\ \E inl \in InLines : \E i, j \in Occupied(inl) :
           /\ Len(Stripped(inl[i])) = 1
           /\ Len(Stripped(inl[j])) > 1
           /\ LeadingWs(inl[i]) # LeadingWs(inl[j])
    /\ ret # str
    /\ ret2 = ret

\* C4: with trimLeftToLeastIndent enabled and an input that has a non-blank
\* line, the minimum leading-whitespace count over the non-blank lines of
\* the output is 0, under every setting of the vertical-trim options.
C4_OutputLeastIndentZero ==
    (pc = "done" /\ config.trimLeftToLeastIndent /\ ~IsBlank(str))
        => /\ ~threw
           /\ \A out \in OutLines :
                  /\ Occupied(out) # {}
                  /\ LeastOf(out) = 0

\* Every non-blank input line is indented, there are several of them and
\* one is re-indented.
C4_Witness ==
    /\ pc = "done"
    /\ config.trimLeftToLeastIndent
    /\ ~IsBlank(str)
    /\ \E inl \in InLines :
           /\ LeastOf(inl) >= 1
           /\ Cardinality(Occupied(inl)) >= 2
           /\ \E i \in Occupied(inl) : Len(Stripped(inl[i])) > 1
    /\ \E out \in OutLines : LeastOf(out) = 0

\* C5: trimLines never raises: the totalIndent of every re-indented line is
\* >= 0, in the call and in the call on its result.
C5_NeverRaises ==
    pc # "input"
        => /\ ~threw
           /\ ~threw2
           /\ \A i \in 1..Len(totalIndents) :
                  totalIndents[i] # NULL => totalIndents[i][1] >= 0

\* Some line is re-indented by nothing and another by a non-empty prefix.
C5_Witness ==
    /\ pc = "done"
    /\ ~threw
    /\ \E i, j \in 1..Len(totalIndents) :
           /\ totalIndents[i] = <<0>>
           /\ totalIndents[j] # NULL
           /\ totalIndents[j][1] > 0

\* C6: with both vertical-trim options enabled and an input that has a
\* non-blank line, the output lines are the post-trim lines from the first
\* non-empty one to the last non-empty one, in order: the first and the last
\* output line are non-empty and every blank input line between two
\* non-blank ones is kept as an empty line.
C6_BothSidesTrimmed ==
    (pc = "done" /\ config.trimVerticalStart /\ config.trimVerticalEnd
                 /\ ~IsBlank(str))
        => /\ ~threw
           /\ \A inl \in InLines : \A out \in OutLines :
                  /\ firstOccupiedLineIdx = <<FirstOcc(inl) - 1>>
                  /\ lastOccupiedLineIdx = <<LastOcc(inl) - 1>>
                  /\ out = SubSeq(resultArrPreLeadTrail,
                                  FirstOcc(inl), LastOcc(inl))
                  /\ out[1] # <<>>
                  /\ out[Len(out)] # <<>>
                  /\ \A i \in FirstOcc(inl)..LastOcc(inl) :
                         IsBlank(inl[i]) <=> out[i - FirstOcc(inl) + 1] = <<>>

\* Blank lines before, between and after the non-blank lines.
C6_Witness ==
    /\ pc = "done"
    /\ config.trimVerticalStart /\ config.trimVerticalEnd
    /\ ~IsBlank(str)
    /\ \E inl \in InLines : \E out \in OutLines :
           /\ FirstOcc(inl) > 1
           /\ LastOcc(inl) < Len(inl)
           /\ \E i \in FirstOcc(inl)..LastOcc(inl) : IsBlank(inl[i])
           /\ Len(out) = LastOcc(inl) - FirstOcc(inl) + 1

\* C7: with exactly one vertical-trim option enabled and an input that has a
\* non-blank line, only that side is trimmed.  Only trimVerticalEnd: every
\* leading blank line is kept as an empty line and the output ends with a
\* non-empty line.  Only trimVerticalStart: the output starts with a
\* non-empty line and every trailing blank line is kept as an empty line.
C7_OneSideTrimmed ==
    (pc = "done" /\ ~IsBlank(str)
                 /\ config.trimVerticalStart # config.trimVerticalEnd)
        => /\ ~threw
           /\ \A inl \in InLines : \A out \in OutLines :
                  /\ config.trimVerticalEnd =>
                         /\ Len(out) = LastOcc(inl)
                         /\ \A k \in 1..(FirstOcc(inl) - 1) : out[k] = <<>>
                         /\ out[FirstOcc(inl)] # <<>>
                         /\ out[Len(out)] # <<>>
                  /\ config.trimVerticalStart =>
                         /\ Len(out) = Len(inl) - FirstOcc(inl) + 1
                         /\ out[1] # <<>>
                         /\ out[LastOcc(inl) - FirstOcc(inl) + 1] # <<>>
                         /\ \A k \in (LastOcc(inl) - FirstOcc(inl) + 2)..Len(out) :
                                out[k] = <<>>

\* Blank lines on both sides of the non-blank lines, one side kept.
C7_Witness ==
    /\ pc = "done"
    /\ config.trimVerticalStart # config.trimVerticalEnd
    /\ ~IsBlank(str)
    /\ \E inl \in InLines : \E out \in OutLines :
           /\ FirstOcc(inl) > 1
           /\ LastOcc(inl) < Len(inl)
           /\ Len(out) > LastOcc(inl) - FirstOcc(inl) + 1
           /\ Len(out) < Len(inl)

\* C8: with trimLeftToLeastIndent disabled, under every setting of the
\* vertical-trim options, each non-blank output line is its input line with
\* the leading and trailing whitespace stripped, and no output line begins
\* with whitespace.
C8_NoReindentWhenDisabled ==
    (pc = "done" /\ ~config.trimLeftToLeastIndent)
        => /\ ~threw
           /\ leastIndent = NULL
           /\ \A inl \in InLines : \A out \in OutLines :
                  \A k \in 1..Len(out) :
                      /\ out[k] # <<>> =>
                             out[k] = Stripped(inl[k + Dropped(inl)])
                      /\ LeadingWs(out[k]) = 0

\* Two non-blank lines at different indentations, one with trailing
\* whitespace.
C8_Witness ==
    /\ pc = "done"
    /\ ~config.trimLeftToLeastIndent
    /\ \E inl \in InLines : \E i, j \in Occupied(inl) :
           /\ LeadingWs(inl[i]) # LeadingWs(inl[j])
           /\ inl[i][Len(inl[i])] \in WhiteSpace
    /\ \E out \in OutLines :
           /\ Len(out) >= 2
           /\ \A k \in 1..Len(out) : LeadingWs(out[k]) = 0

\* C9: with trimLeftToLeastIndent enabled, every line whose trimmed content
\* is longer than 1 is emitted as (its leading-whitespace count minus the
\* least indent) spaces followed by its trimmed content, the least indent
\* being the minimum over all non-blank input lines, single-character lines
\* included; so the output indents of two such lines differ as their input
\* indents do.
C9_ReindentRelativeToLeast ==
    (pc = "done" /\ config.trimLeftToLeastIndent /\ ~IsBlank(str))
        => /\ ~threw
           /\ \A inl \in InLines : \A out \in OutLines :
                  /\ leastIndent = <<LeastOf(inl)>>
                  /\ \A i \in Occupied(inl) :
                         Len(Stripped(inl[i])) > 1 =>
                             /\ i - Dropped(inl) \in 1..Len(out)
                             /\ out[i - Dropped(inl)] =
                                    Spaces(LeadingWs(inl[i]) - LeastOf(inl))
                                        \o Stripped(inl[i])
                  /\ \A i, j \in Occupied(inl) :
                         (Len(Stripped(inl[i])) > 1 /\ Len(Stripped(inl[j])) > 1)
                             => LeadingWs(out[i - Dropped(inl)])
                                    - LeadingWs(out[j - Dropped(inl)])
                                = LeadingWs(inl[i]) - LeadingWs(inl[j])

\* A tab-indented longer line above the least indent, which a
\* single-character line sets.
C9_Witness ==
    /\ pc = "done"
    /\ config.trimLeftToLeastIndent
    /\ \E inl \in InLines : \E out \in OutLines : \E i, j \in Occupied(inl) :
           /\ Len(Stripped(inl[i])) > 1
           /\ inl[i][1] = TAB
           /\ LeadingWs(inl[i]) > LeastOf(inl)
           /\ Len(Stripped(inl[j])) = 1
           /\ LeadingWs(inl[j]) = LeastOf(inl)
           /\ out[i - Dropped(inl)][1] = SP

\* C10: under every configuration a line whose trimmed content has length 1
\* is emitted as that one character, with no leading whitespace, whatever
\* its indentation and whatever happens to the other lines.
C10_SingleCharNotReindented ==
    pc = "done"
        => /\ ~threw
           /\ \A inl \in InLines : \A out \in OutLines :
                  \A i \in Occupied(inl) :
                      Len(Stripped(inl[i])) = 1 =>
                          /\ i - Dropped(inl) \in 1..Len(out)
                          /\ out[i - Dropped(inl)] = Stripped(inl[i])

\* A single-character line indented beyond the least indent, next to a line
\* that is re-indented.
C10_Witness ==
    /\ pc = "done"
    /\ config.trimLeftToLeastIndent
    /\ \E inl \in InLines : \E out \in OutLines : \E i, j \in Occupied(inl) :
           /\ Len(Stripped(inl[i])) = 1
           /\ LeadingWs(inl[i]) > LeastOf(inl)
           /\ Len(Stripped(inl[j])) > 1
           /\ totalIndents[j] # NULL
           /\ out[i - Dropped(inl)] = Stripped(inl[i])

====
